---- MODULE Spec2Model ----
(***************************************************************************)
(* Model of the Effect-TS SpanTree demo.                                   *)
(*                                                                         *)
(*   lib/span-tree-logger.ts  the SpanTree service interface, its mock     *)
(*                            implementation, auditLogs, withSpanLogging   *)
(*   services/user.ts         fetchUser and its four steps                 *)
(*   services/notification.ts sendNotifications, nine nested spans         *)
(*   index.ts                 the HTTP routes                              *)
(*                                                                         *)
(* An Effect program is modelled as the sequence of the instructions it    *)
(* executes: Effect.withSpan(name) brackets its body between a "start" and *)
(* an "end" instruction, a generator's yield* statements follow each other *)
(* in program order.  A failure (Effect.fail) unwinds: it skips to the end *)
(* of every enclosing span in turn, runs the Effect.ensuring finalizer on  *)
(* the way, and stops at Effect.either or leaves the program.              *)
(* Effect.log only writes to the console and is not an instruction.        *)
(*                                                                         *)
(* Strings are TLA+ strings; an optional value (T | null | undefined) is   *)
(* the empty tuple when absent and the 1-tuple <<v>> when present.         *)
(* User ids are sequences of characters, so that /^\d+$/ can be evaluated. *)
(***************************************************************************)
EXTENDS Integers, Sequences, FiniteSets, TLC

VARIABLES
    now,        \* the clock read by Date.now() / new Date(), in ms
    fiber,      \* the request (or withSpanLogging run) being executed
    spans,      \* the spans of the fiber's trace, in start order
    auditLogs,  \* the exported auditLogs array
    served,     \* number of requests and runs started so far
    replies     \* per SpanTree query method, the last call and its result

vars == <<now, fiber, spans, auditLogs, served, replies>>

----------------------------------------------------------------------------
(* Bounds *)

MaxRequests == 2      \* requests and withSpanLogging runs per behaviour
MaxTraceNo  == 2      \* trace ids "trace-0" .. "trace-<MaxTraceNo>" are queried

----------------------------------------------------------------------------
(* Optional values *)

None == <<>>
Some(v) == <<v>>
IsSome(o) == o # None
Val(o) == o[1]

\* JavaScript truthiness of an optional string: undefined, null and "" are falsy
Truthy(o) == IsSome(o) /\ Val(o) # ""

\* a ?? b
Coalesce(o, d) == IF IsSome(o) THEN Val(o) ELSE d

----------------------------------------------------------------------------
(* The mock SpanTree service (mockSpanTreeLayer) *)

MockPath == <<"root", "child1", "child2">>

getCurrentTraceId(t) == Some("trace-" \o ToString(t))

getCurrentSpanId(t) == Some("span-" \o ToString(t))

\* mutant: the path loses its last element
getDeepestPath_Short(traceId) == SubSeq(MockPath, 1, 2)

getDeepestPath(traceId) == MockPath

\* options is an optional record [traceUrlBase : optional string]
OptTraceUrlBase(options) ==
    IF IsSome(options) THEN Val(options).traceUrlBase ELSE None

\* mutant: the base is tested for presence, not for truthiness
getTraceSummary_AnyBase(traceId, options) ==
    [ traceId       |-> traceId,
      path          |-> MockPath,
      formattedPath |-> "root → child1 → child2",
      depth         |-> 3,
      spanCount     |-> 3,
      traceUrl      |-> IF IsSome(OptTraceUrlBase(options))
                        THEN Some(Val(OptTraceUrlBase(options)) \o "/traces/" \o traceId)
                        ELSE None ]

getTraceSummary(traceId, options) ==
    [ traceId       |-> traceId,
      path          |-> MockPath,
      formattedPath |-> "root → child1 → child2",
      depth         |-> 3,
      spanCount     |-> 3,
      traceUrl      |-> IF Truthy(OptTraceUrlBase(options))
                        THEN Some(Val(OptTraceUrlBase(options)) \o "/traces/" \o traceId)
                        ELSE None ]

getTraceSpans(traceId) == <<>>

getLeafSpans(traceId) == <<>>

isEnabled == TRUE

----------------------------------------------------------------------------
(* Programs: sequences of instructions *)

Instr(op, arg) == [op |-> op, arg |-> arg]

\* effect.pipe(Effect.withSpan(name))
withSpan(name, body) == <<Instr("start", name)>> \o body \o <<Instr("end", name)>>

sleep(ms) == <<Instr("sleep", ms)>>

annotateCurrentSpan(key, value) == <<Instr("annotate", <<key, value>>)>>

\* if (cond) return yield* Effect.fail(err)
failIf(cond, err) == <<Instr("failIf", <<cond, err>>)>>

(* services/user.ts *)

Digits == {"0", "1", "2", "3", "4", "5", "6", "7", "8", "9"}

\* userId.match(/^\d+$/)
MatchesDigits(userId) ==
    Len(userId) > 0 /\ \A i \in 1..Len(userId) : userId[i] \in Digits

mockUsers == { <<"1">>, <<"2">>, <<"3">> }

validateUserId(userId) ==
    withSpan("validate",
        sleep(10) \o failIf(~MatchesDigits(userId), "InvalidUserIdError"))

checkPermissions(userId) == withSpan("checkPermissions", sleep(15))

queryDatabase(userId) ==
    withSpan("db.query",
        annotateCurrentSpan("db.system", "postgresql")
        \o annotateCurrentSpan("db.statement", "SELECT * FROM users WHERE id = $1")
        \o sleep(50)
        \o failIf(userId \notin mockUsers, "UserNotFoundError"))

transformUser == withSpan("transform", sleep(5))

fetchUser(userId) ==
    withSpan("fetchUser",
        validateUserId(userId)
        \o checkPermissions(userId)
        \o queryDatabase(userId)
        \o transformUser)

(* services/notification.ts *)

sendEmail ==
    withSpan("sendEmail",
        annotateCurrentSpan("email.provider", "sendgrid") \o sleep(3))

\* mutant: sendEmail runs after formatEmail instead of inside it
formatEmail_ThenSend == withSpan("formatEmail", sleep(2)) \o sendEmail

formatEmail == withSpan("formatEmail", sleep(2) \o sendEmail)

loadTemplate ==
    withSpan("loadTemplate",
        annotateCurrentSpan("template.name", "user-notification")
        \o sleep(5) \o formatEmail)

fetchRecipients == withSpan("fetchRecipients", sleep(10) \o loadTemplate)

validateRecipients == withSpan("validateRecipients", sleep(3) \o fetchRecipients)

prepareNotification == withSpan("prepareNotification", sleep(2) \o validateRecipients)

queueNotification ==
    withSpan("queueNotification",
        annotateCurrentSpan("queue.name", "notifications")
        \o sleep(5) \o prepareNotification)

notificationPipeline == withSpan("notificationPipeline", sleep(2) \o queueNotification)

sendNotifications == withSpan("notifications", sleep(1) \o notificationPipeline)

(* lib/span-tree-logger.ts: withSpanLogging *)

DefaultTraceUrlBase == "https://ui.atrim.io"

\* the finalizer passed to Effect.ensuring; options is withSpanLogging's
\* third argument, a record [traceUrlBase : optional string]
finalizer(options) ==
    << Instr("summary", options),
       Instr("annotateSummary", "span_tree.depth"),
       Instr("annotateSummary", "span_tree.deepest_path"),
       Instr("annotateSummary", "span_tree.span_count"),
       Instr("annotateSummary", "span_tree.trace_url"),
       Instr("audit", None) >>

\* mutant: Effect.ensuring is applied outside Effect.withSpan
withSpanLogging_EnsuringOutside(effect, operationName, options) ==
    withSpan(operationName, <<Instr("getCurrentTraceId", None)>> \o effect)
    \o finalizer(options)

withSpanLogging(effect, operationName, options) ==
    withSpan(operationName,
        <<Instr("getCurrentTraceId", None)>> \o effect \o finalizer(options))

(* index.ts: the routes *)

RouteUserId == <<"1">>      \* const id = "1"

either == <<Instr("either", None)>>

respond(okStatus, errStatus) == <<Instr("respond", <<okStatus, errStatus>>)>>

userRoute ==
    withSpan("api.getUser", fetchUser(RouteUserId)) \o either \o respond(200, 404)

enrichUser == withSpan("enrichUser", withSpan("fetchPreferences", <<>>))

analytics ==
    withSpan("analytics",
        withSpan("calculateMetrics",
            withSpan("aggregateData",
                withSpan("computeStats",
                    withSpan("finalizeMetrics", <<>>)))))

cacheCheck == withSpan("cacheCheck", <<>>)

complexOperation ==
    fetchUser(RouteUserId) \o enrichUser \o analytics \o cacheCheck \o sendNotifications

complexRoute ==
    withSpan("api.complexOperation", complexOperation) \o either \o respond(200, 500)

auditRoute == <<Instr("respondAudit", None)>>

----------------------------------------------------------------------------
(* Inputs *)

UserIds == { <<"1">>, <<"9">>, <<"a", "b", "c">> }

OperationNames == { "api.getUser" }

\* the options argument of withSpanLogging
LoggerOptions ==
    { [traceUrlBase |-> b] : b \in {None, Some(""), Some("http://localhost:3001")} }

\* the optional options argument of getTraceSummary
QueryOptions == {None} \cup { Some(o) : o \in LoggerOptions }

QueryTraceIds ==
    { "trace-" \o ToString(n) : n \in 0..MaxTraceNo } \cup { "", "abc123" }

----------------------------------------------------------------------------
(* The fiber executing a program *)

IdleFiber ==
    [ kind |-> "idle", userId |-> <<>>, opName |-> "", options |-> [traceUrlBase |-> None],
      pc |-> 1, stack |-> <<>>, err |-> None, exit |-> None,
      traceId |-> None, summary |-> None, response |-> None, auditBefore |-> 0,
      param |-> <<>> ]      \* the :id of the request path

Program(f) ==
    CASE f.kind = "user"    -> userRoute
      [] f.kind = "complex" -> complexRoute
      [] f.kind = "audit"   -> auditRoute
      [] f.kind = "logged"  -> withSpanLogging(fetchUser(f.userId), f.opName, f.options)
      [] OTHER              -> <<>>

Done(f) == f.pc > Len(Program(f))

Failing(f) == IsSome(f.err)

UnwindStops == {"end", "either", "summary", "annotateSummary", "audit"}

\* A failure raised before instruction i skips the rest of the enclosing
\* span's body: the index of the first instruction from i on, outside any
\* span started from i on, at which the failure is handled (the span's end,
\* a finalizer step, Effect.either), or Len(prog) + 1 when it leaves the program.
RECURSIVE Unwind(_, _, _)
Unwind(prog, i, depth) ==
    IF i > Len(prog) THEN i
    ELSE IF depth = 0 /\ prog[i].op \in UnwindStops THEN i
    ELSE IF prog[i].op = "start" THEN Unwind(prog, i + 1, depth + 1)
    ELSE IF prog[i].op = "end" THEN Unwind(prog, i + 1, depth - 1)
    ELSE Unwind(prog, i + 1, depth)

\* the next instruction after the one at f.pc has been executed
Advance(f) ==
    IF Failing(f) THEN Unwind(Program(f), f.pc + 1, 0) ELSE f.pc + 1

Cur == Program(fiber)[fiber.pc]

At(op) == ~Done(fiber) /\ Cur.op = op

CurrentSpan == IF fiber.stack = <<>> THEN 0 ELSE fiber.stack[Len(fiber.stack)]

Init ==
    /\ now = 0
    /\ fiber = IdleFiber
    /\ spans = <<>>
    /\ auditLogs = <<>>
    /\ served = 0
    /\ replies = [ getDeepestPath |-> None, getTraceSummary |-> None,
                   getTraceSpans |-> None, getLeafSpans |-> None ]

----------------------------------------------------------------------------
(* Requests arriving at the server, and a caller running withSpanLogging *)

CanStart == Done(fiber) /\ served < MaxRequests

\* the fiber at the first instruction of its program
NewFiber(kind, userId, opName, options) ==
    [ IdleFiber EXCEPT !.kind = kind, !.userId = userId, !.opName = opName,
                       !.options = options, !.auditBefore = Len(auditLogs) ]

\* GET /api/users/:id
GetUser ==
    /\ CanStart
    /\ \E id \in UserIds :
          fiber' = [NewFiber("user", RouteUserId, "", [traceUrlBase |-> None])
                        EXCEPT !.param = id]
    /\ spans' = <<>>
    /\ served' = served + 1
    /\ UNCHANGED <<now, auditLogs, replies>>

\* GET /api/complex/:id
GetComplex ==
    /\ CanStart
    /\ \E id \in UserIds :
          fiber' = [NewFiber("complex", RouteUserId, "", [traceUrlBase |-> None])
                        EXCEPT !.param = id]
    /\ spans' = <<>>
    /\ served' = served + 1
    /\ UNCHANGED <<now, auditLogs, replies>>

\* GET /api/audit-logs
GetAuditLogs ==
    /\ CanStart
    /\ fiber' = NewFiber("audit", <<>>, "", [traceUrlBase |-> None])
    /\ spans' = <<>>
    /\ served' = served + 1
    /\ UNCHANGED <<now, auditLogs, replies>>

\* a caller runs withSpanLogging(fetchUser(userId), opName, options)
RunWithSpanLogging ==
    /\ CanStart
    /\ \E userId \in UserIds, opName \in OperationNames, options \in LoggerOptions :
          fiber' = NewFiber("logged", userId, opName, options)
    /\ spans' = <<>>
    /\ served' = served + 1
    /\ UNCHANGED <<now, auditLogs, replies>>

----------------------------------------------------------------------------
(* Execution steps of the fiber *)

Goto(f, pc) == [f EXCEPT !.pc = pc]

SetAttr(sp, id, key, value) ==
    IF id = 0 THEN sp
    ELSE [sp EXCEPT ![id].attrs = (key :> value) @@ sp[id].attrs]

\* mutant: the span starts as a child of the span started last
StartSpan_UnderLastStarted ==
    /\ At("start")
    /\ spans' = Append(spans,
                    [ name |-> Cur.arg, parent |-> Len(spans), open |-> TRUE,
                      attrs |-> <<>>, startedAt |-> now, endedAt |-> None ])
    /\ fiber' = [fiber EXCEPT !.pc = fiber.pc + 1,
                              !.stack = Append(fiber.stack, Len(spans) + 1)]
    /\ UNCHANGED <<now, auditLogs, served, replies>>

\* Effect.withSpan: the span starts as a child of the current span
StartSpan ==
    /\ At("start")
    /\ spans' = Append(spans,
                    [ name |-> Cur.arg, parent |-> CurrentSpan, open |-> TRUE,
                      attrs |-> <<>>, startedAt |-> now, endedAt |-> None ])
    /\ fiber' = [fiber EXCEPT !.pc = fiber.pc + 1,
                              !.stack = Append(fiber.stack, Len(spans) + 1)]
    /\ UNCHANGED <<now, auditLogs, served, replies>>

\* Effect.withSpan: the span ends when its body has succeeded or failed
EndSpan ==
    /\ At("end")
    /\ spans' = [spans EXCEPT ![CurrentSpan].open = FALSE,
                              ![CurrentSpan].endedAt = Some(now)]
    /\ fiber' = [fiber EXCEPT !.pc = Advance(fiber),
                              !.stack = SubSeq(fiber.stack, 1, Len(fiber.stack) - 1)]
    /\ UNCHANGED <<now, auditLogs, served, replies>>

Sleep ==
    /\ At("sleep")
    /\ now' = now + Cur.arg
    /\ fiber' = Goto(fiber, fiber.pc + 1)
    /\ UNCHANGED <<spans, auditLogs, served, replies>>

AnnotateCurrentSpan ==
    /\ At("annotate")
    /\ spans' = SetAttr(spans, CurrentSpan, Cur.arg[1], Cur.arg[2])
    /\ fiber' = Goto(fiber, fiber.pc + 1)
    /\ UNCHANGED <<now, auditLogs, served, replies>>

\* if (cond) return yield* Effect.fail(err)
FailIf ==
    /\ At("failIf")
    /\ fiber' = IF Cur.arg[1]
                THEN [fiber EXCEPT !.err = Some(Cur.arg[2]),
                                   !.pc = Unwind(Program(fiber), fiber.pc + 1, 0)]
                ELSE Goto(fiber, fiber.pc + 1)
    /\ UNCHANGED <<now, spans, auditLogs, served, replies>>

\* Effect.either: a failure becomes a Left, a success a Right
Either ==
    /\ At("either")
    /\ fiber' = [fiber EXCEPT !.exit = IF Failing(fiber) THEN Some([tag |-> "Left", left |-> Val(fiber.err)])
                                       ELSE Some([tag |-> "Right", left |-> ""]),
                              !.err = None,
                              !.pc = fiber.pc + 1]
    /\ UNCHANGED <<now, spans, auditLogs, served, replies>>

\* HttpServerResponse.json(result.right) or json({error}, {status})
Respond ==
    /\ At("respond")
    /\ fiber' = [fiber EXCEPT !.response =
                        IF Val(fiber.exit).tag = "Right"
                        THEN Some([status |-> Cur.arg[1], body |-> <<[user |-> fiber.userId]>>])
                        ELSE Some([status |-> Cur.arg[2], body |-> <<[error |-> Val(fiber.exit).left]>>]),
                              !.pc = fiber.pc + 1]
    /\ UNCHANGED <<now, spans, auditLogs, served, replies>>

\* HttpServerResponse.json(auditLogs)
RespondAudit ==
    /\ At("respondAudit")
    /\ fiber' = [fiber EXCEPT !.response = Some([status |-> 200, body |-> auditLogs]),
                              !.pc = fiber.pc + 1]
    /\ UNCHANGED <<now, spans, auditLogs, served, replies>>

(* withSpanLogging's own steps *)

\* const traceId = spanTree.getCurrentTraceId()
\* getCurrentTraceId: () => string | null.  The service withSpanLogging takes
\* from its context answers with an id, as the mock does, or with null when
\* there is no active trace.
TraceIdAnswers(t) == { getCurrentTraceId(t), None }

ReadTraceId ==
    /\ At("getCurrentTraceId")
    /\ \E id \in TraceIdAnswers(now) :
          fiber' = [fiber EXCEPT !.traceId = id, !.pc = fiber.pc + 1]
    /\ UNCHANGED <<now, spans, auditLogs, served, replies>>

\* without a trace id the effect runs without the finalizer
HasFinalizer(f) == IsSome(f.traceId)

\* const summary = spanTree.getTraceSummary(traceId, {traceUrlBase: ... ?? default})
QuerySummary ==
    /\ At("summary")
    /\ fiber' = [fiber EXCEPT
            !.summary = IF HasFinalizer(fiber)
                        THEN Some(getTraceSummary(Val(fiber.traceId),
                                 Some([traceUrlBase |->
                                        Some(Coalesce(Cur.arg.traceUrlBase, DefaultTraceUrlBase))])))
                        ELSE None,
            !.pc = Advance(fiber)]
    /\ UNCHANGED <<now, spans, auditLogs, served, replies>>

SummaryAttr(summary, key) ==
    CASE key = "span_tree.depth"        -> Some(summary.depth)
      [] key = "span_tree.deepest_path" -> Some(summary.formattedPath)
      [] key = "span_tree.span_count"   -> Some(summary.spanCount)
      [] key = "span_tree.trace_url"    -> IF Truthy(summary.traceUrl) THEN summary.traceUrl ELSE None

\* yield* Effect.annotateCurrentSpan("span_tree.*", ...)
AnnotateSummary ==
    /\ At("annotateSummary")
    /\ spans' = IF HasFinalizer(fiber) /\ IsSome(SummaryAttr(Val(fiber.summary), Cur.arg))
                THEN SetAttr(spans, CurrentSpan, Cur.arg, Val(SummaryAttr(Val(fiber.summary), Cur.arg)))
                ELSE spans
    /\ fiber' = Goto(fiber, Advance(fiber))
    /\ UNCHANGED <<now, auditLogs, served, replies>>

\* mutant: the entry takes the trace id current when the finalizer runs
PushAuditLog_FreshTraceId ==
    /\ At("audit")
    /\ auditLogs' = IF HasFinalizer(fiber)
                    THEN Append(auditLogs,
                            [ traceId     |-> Val(getCurrentTraceId(now)),
                              deepestPath |-> Val(fiber.summary).formattedPath,
                              depth       |-> Val(fiber.summary).depth,
                              spanCount   |-> Val(fiber.summary).spanCount,
                              timestamp   |-> now,
                              traceUrl    |-> Val(fiber.summary).traceUrl ])
                    ELSE auditLogs
    /\ fiber' = Goto(fiber, Advance(fiber))
    /\ UNCHANGED <<now, spans, served, replies>>

\* auditLogs.push({...})
PushAuditLog ==
    /\ At("audit")
    /\ auditLogs' = IF HasFinalizer(fiber)
                    THEN Append(auditLogs,
                            [ traceId     |-> Val(fiber.traceId),
                              deepestPath |-> Val(fiber.summary).formattedPath,
                              depth       |-> Val(fiber.summary).depth,
                              spanCount   |-> Val(fiber.summary).spanCount,
                              timestamp   |-> now,
                              traceUrl    |-> Val(fiber.summary).traceUrl ])
                    ELSE auditLogs
    /\ fiber' = Goto(fiber, Advance(fiber))
    /\ UNCHANGED <<now, spans, served, replies>>

Next ==
    \/ GetUser
    \/ GetComplex
    \/ GetAuditLogs
    \/ RunWithSpanLogging
    \/ StartSpan
    \/ EndSpan
    \/ Sleep
    \/ AnnotateCurrentSpan
    \/ FailIf
    \/ Either
    \/ Respond
    \/ RespondAudit
    \/ ReadTraceId
    \/ QuerySummary
    \/ AnnotateSummary
    \/ PushAuditLog

Spec == Init /\ [][Next]_vars

----------------------------------------------------------------------------
(* A client of the SpanTree service calling its query methods *)

CallGetDeepestPath ==
    /\ \E t \in QueryTraceIds :
          replies' = [replies EXCEPT !.getDeepestPath =
                          Some([traceId |-> t, result |-> getDeepestPath(t)])]
    /\ UNCHANGED <<now, fiber, spans, auditLogs, served>>

CallGetTraceSummary ==
    /\ \E t \in QueryTraceIds, o \in QueryOptions :
          replies' = [replies EXCEPT !.getTraceSummary =
                          Some([traceId |-> t, options |-> o, result |-> getTraceSummary(t, o)])]
    /\ UNCHANGED <<now, fiber, spans, auditLogs, served>>

CallGetTraceSpans ==
    /\ \E t \in QueryTraceIds :
          replies' = [replies EXCEPT !.getTraceSpans =
                          Some([traceId |-> t, result |-> getTraceSpans(t)])]
    /\ UNCHANGED <<now, fiber, spans, auditLogs, served>>

CallGetLeafSpans ==
    /\ \E t \in QueryTraceIds :
          replies' = [replies EXCEPT !.getLeafSpans =
                          Some([traceId |-> t, result |-> getLeafSpans(t)])]
    /\ UNCHANGED <<now, fiber, spans, auditLogs, served>>

NextQuery ==
    \/ CallGetDeepestPath
    \/ CallGetTraceSummary
    \/ CallGetTraceSpans
    \/ CallGetLeafSpans

SpecQuery == Init /\ [][NextQuery]_vars

----------------------------------------------------------------------------
(* Properties of the query methods, checked under SpecQuery *)

Asked(op) == IsSome(replies[op])

Reply(op) == Val(replies[op])

SameTrace(op1, op2) ==
    Asked(op1) /\ Asked(op2) /\ Reply(op1).traceId = Reply(op2).traceId

\* C1: for every trace id, getDeepestPath(traceId) has as many elements as
\* getTraceSummary(traceId, options).depth says, and the summary's path is
\* that same sequence.
C1_DeepestPathMatchesSummary ==
    SameTrace("getDeepestPath", "getTraceSummary") =>
        /\ Len(Reply("getDeepestPath").result) = Reply("getTraceSummary").result.depth
        /\ Reply("getTraceSummary").result.path = Reply("getDeepestPath").result

C1_Witness ==
    /\ SameTrace("getDeepestPath", "getTraceSummary")
    /\ Reply("getDeepestPath").traceId = "abc123"
    /\ Reply("getTraceSummary").result.depth = 3

\* C2: a trace id that was never created yields empty/zero results from
\* every query: empty deepest path, empty span and leaf lists, and a summary
\* with depth 0, spanCount 0 and an empty path.  (No operation of the service
\* creates a trace, so every queried id is one that was never created.)
C2_UnknownTraceIsEmpty ==
    /\ Asked("getDeepestPath") => Reply("getDeepestPath").result = <<>>
    /\ Asked("getTraceSpans") => Reply("getTraceSpans").result = <<>>
    /\ Asked("getLeafSpans") => Reply("getLeafSpans").result = <<>>
    /\ Asked("getTraceSummary") =>
          /\ Reply("getTraceSummary").result.depth = 0
          /\ Reply("getTraceSummary").result.spanCount = 0
          /\ Reply("getTraceSummary").result.path = <<>>

\* C3: a span of a trace is in getLeafSpans(traceId) iff no span of the trace
\* has it as parent; in particular a trace with a non-empty deepest path has
\* a leaf, the last span of that path.
C3_LeafSpansAreChildless ==
    /\ SameTrace("getTraceSpans", "getLeafSpans") =>
          LET all    == Reply("getTraceSpans").result
              leaves == Reply("getLeafSpans").result
          IN  \A i \in 1..Len(all) :
                  (\E l \in 1..Len(leaves) : leaves[l].spanId = all[i].spanId)
                  <=> ~ \E j \in 1..Len(all) : all[j].parentSpanId = Some(all[i].spanId)
    /\ SameTrace("getDeepestPath", "getLeafSpans") =>
          LET path   == Reply("getDeepestPath").result
              leaves == Reply("getLeafSpans").result
          IN  path # <<>> => \E l \in 1..Len(leaves) : leaves[l].name = path[Len(path)]

\* C4: getTraceSummary(traceId).spanCount is the number of spans stored for
\* the trace, the length of getTraceSpans(traceId), and is at least depth.
C4_SpanCountIsNumberOfSpans ==
    /\ SameTrace("getTraceSummary", "getTraceSpans") =>
          Reply("getTraceSummary").result.spanCount = Len(Reply("getTraceSpans").result)
    /\ Asked("getTraceSummary") =>
          Reply("getTraceSummary").result.spanCount >= Reply("getTraceSummary").result.depth

\* whether the call passed options with a traceUrlBase property
BaseSupplied(call) == IsSome(OptTraceUrlBase(call.options))

SuppliedBase(call) == Val(OptTraceUrlBase(call.options))

\* C5 as stated: traceUrl is traceUrlBase + "/traces/" + traceId whenever a
\* traceUrlBase is supplied and null otherwise; the summary's traceId is the
\* argument.
C5_TraceUrlWhenBaseSupplied ==
    Asked("getTraceSummary") =>
        LET call == Reply("getTraceSummary") IN
        /\ call.result.traceId = call.traceId
        /\ call.result.traceUrl =
              IF BaseSupplied(call)
              THEN Some(SuppliedBase(call) \o "/traces/" \o call.traceId)
              ELSE None

\* C5 amended: traceUrl is traceUrlBase + "/traces/" + traceId when a
\* non-empty traceUrlBase is supplied, and null when it is absent or the
\* empty string; the summary's traceId is the argument.
C5_TraceUrlWhenBaseNonEmpty ==
    Asked("getTraceSummary") =>
        LET call == Reply("getTraceSummary") IN
        /\ call.result.traceId = call.traceId
        /\ (BaseSupplied(call) /\ SuppliedBase(call) # "") =>
              call.result.traceUrl = Some(SuppliedBase(call) \o "/traces/" \o call.traceId)
        /\ (~BaseSupplied(call) \/ SuppliedBase(call) = "") =>
              call.result.traceUrl = None

C5_Witness ==
    /\ Asked("getTraceSummary")
    /\ Reply("getTraceSummary").traceId = "trace-1"
    /\ Reply("getTraceSummary").options = Some([traceUrlBase |-> Some("http://localhost:3001")])
    /\ Reply("getTraceSummary").result.traceUrl = Some("http://localhost:3001/traces/trace-1")

----------------------------------------------------------------------------
(* Properties of the requests, checked under Spec *)

\* number of spans on the chain from the root of the trace to span i
RECURSIVE Depth(_, _)
Depth(sp, i) == IF sp[i].parent = 0 THEN 1 ELSE 1 + Depth(sp, sp[i].parent)

\* the names on the chain from the root of the trace to span i
RECURSIVE PathNames(_, _)
PathNames(sp, i) ==
    IF sp[i].parent = 0 THEN <<sp[i].name>>
    ELSE Append(PathNames(sp, sp[i].parent), sp[i].name)

Leaves(sp) == { i \in 1..Len(sp) : ~ \E j \in 1..Len(sp) : sp[j].parent = i }

Succeeded(kind) ==
    /\ fiber.kind = kind
    /\ Done(fiber)
    /\ IsSome(fiber.response)
    /\ Val(fiber.response).status = 200

UserChain ==
    <<"api.getUser", "fetchUser", "validate", "checkPermissions", "db.query", "transform">>

\* C6: a successful GET /api/users/:id creates exactly 6 spans forming one
\* parent chain api.getUser -> fetchUser -> validate -> checkPermissions ->
\* db.query -> transform, each span the child of the one before it, so the
\* deepest path has depth 6.
C6_UserRequestIsSixDeepChain ==
    Succeeded("user") =>
        /\ Len(spans) = 6
        /\ \A i \in 1..Len(spans) :
              /\ spans[i].name = UserChain[i]
              /\ spans[i].parent = i - 1
        /\ \E l \in Leaves(spans) : Depth(spans, l) = 6

NotificationsPath ==
    << "api.complexOperation", "notifications", "notificationPipeline",
       "queueNotification", "prepareNotification", "validateRecipients",
       "fetchRecipients", "loadTemplate", "formatEmail", "sendEmail" >>

\* C7: after a successful GET /api/complex/:id the deepest root-to-leaf path
\* of the trace is the notifications branch, of depth 10, and every leaf of
\* the other branches (fetchUser, enrichUser, analytics, cacheCheck) is
\* strictly shallower.
C7_NotificationsBranchIsDeepest ==
    Succeeded("complex") =>
        /\ \E l \in Leaves(spans) :
              /\ PathNames(spans, l) = NotificationsPath
              /\ Depth(spans, l) = 10
              /\ \A m \in Leaves(spans) \ {l} : Depth(spans, m) < 10
        /\ { spans[i].name : i \in { j \in 1..Len(spans) : spans[j].parent = 1 } }
              = {"fetchUser", "enrichUser", "analytics", "cacheCheck", "notifications"}
        /\ \A m \in Leaves(spans) :
              PathNames(spans, m)[2] # "notifications" => Depth(spans, m) < 10

C7_Witness ==
    /\ Succeeded("complex")
    /\ Len(spans) = 23
    /\ \E l \in Leaves(spans) : spans[l].name = "sendEmail" /\ ~spans[l].open

FinalizerOps == {"summary", "annotateSummary", "audit"}

SpanTreeKeys ==
    {"span_tree.depth", "span_tree.deepest_path", "span_tree.span_count", "span_tree.trace_url"}

InFinalizer ==
    fiber.kind = "logged" /\ ~Done(fiber) /\ Cur.op \in FinalizerOps /\ HasFinalizer(fiber)

C9_CompletedRouteRequestIsAudited ==
    (fiber.kind \in {"user", "complex"} /\ Done(fiber)) =>
        Len(auditLogs) > fiber.auditBefore

LoggedRun == fiber.kind = "logged"

Appended == Len(auditLogs) - fiber.auditBefore

LastEntry == auditLogs[Len(auditLogs)]

\* C15: a run of withSpanLogging appends exactly one entry to auditLogs when
\* getCurrentTraceId() answered with an id at the start, whether the wrapped
\* effect succeeds or fails, and appends none and sets no span_tree.*
\* attribute when it answered null; the entry is appended after the wrapped
\* effect has finished, carries the trace id read at the start, and its
\* depth, spanCount, deepestPath and traceUrl are those of the summary the
\* finalizer queried.
C15_OneAuditEntryPerTracedRun ==
    LoggedRun =>
        /\ Appended \in {0, 1}
        /\ (Done(fiber) /\ IsSome(fiber.traceId)) => Appended = 1
        /\ ~IsSome(fiber.traceId) =>
              /\ Appended = 0
              /\ \A i \in 1..Len(spans) : DOMAIN spans[i].attrs \cap SpanTreeKeys = {}
        /\ Appended = 1 =>
              /\ IsSome(fiber.traceId) /\ IsSome(fiber.summary)
              /\ Len(spans) >= 2
              /\ \A i \in 2..Len(spans) : ~spans[i].open
              /\ LastEntry.traceId = Val(fiber.traceId)
              /\ LastEntry.traceId = "trace-" \o ToString(spans[1].startedAt)
              /\ LastEntry.depth = Val(fiber.summary).depth
              /\ LastEntry.spanCount = Val(fiber.summary).spanCount
              /\ LastEntry.deepestPath = Val(fiber.summary).formattedPath
              /\ LastEntry.traceUrl = Val(fiber.summary).traceUrl

C15_Witness ==
    /\ LoggedRun
    /\ Done(fiber)
    /\ fiber.err = Some("UserNotFoundError")
    /\ Appended = 1
    /\ LastEntry.traceId = "trace-0"
    /\ LastEntry.timestamp = 75

FetchSteps == <<"validate", "checkPermissions", "db.query", "transform">>

\* the spans named name, in start order
Named(name) == { i \in 1..Len(spans) : spans[i].name = name }

\* the children of span p, in start order
RECURSIVE ChildrenUpTo(_, _)
ChildrenUpTo(p, n) ==
    IF n = 0 THEN <<>>
    ELSE IF spans[n].parent = p THEN Append(ChildrenUpTo(p, n - 1), n)
    ELSE ChildrenUpTo(p, n - 1)

Children(p) == ChildrenUpTo(p, Len(spans))

InvalidId(id) == ~MatchesDigits(id)

UnknownId(id) == MatchesDigits(id) /\ id \notin mockUsers

\* fetchUser(id) starts validate, checkPermissions, db.query, transform in
\* this order, each ended before the next starts; none after a failed
\* validate, no transform after a failed db.query; its span ends and the
\* error leaves it.
FetchUserStepsInOrder(id) ==
    \A f \in Named("fetchUser") :
        LET ch == Children(f) IN
        /\ Len(ch) <= 4
        /\ \A k \in 1..Len(ch) : spans[ch[k]].name = FetchSteps[k]
        /\ \A k \in 1..Len(ch) : k < Len(ch) => ~spans[ch[k]].open
        /\ InvalidId(id) => Len(ch) <= 1
        /\ UnknownId(id) => Len(ch) <= 3
        /\ Done(fiber) => ~spans[f].open
        /\ (~spans[f].open /\ fiber.kind = "logged" /\ InvalidId(id)) =>
              (fiber.err = Some("InvalidUserIdError") /\ Len(ch) = 1)
        /\ (~spans[f].open /\ fiber.kind = "logged" /\ UnknownId(id)) =>
              (fiber.err = Some("UserNotFoundError") /\ Len(ch) = 3)

\* the part of C16 about fetchUser itself, for the id fetchUser is called with
C16_FetchUserPart == FetchUserStepsInOrder(fiber.userId)

LaterBranches == {"enrichUser", "analytics", "cacheCheck", "notifications"}

OpenSpans == { i \in 1..Len(spans) : spans[i].open }

RECURSIVE IsAncestor(_, _)
IsAncestor(a, i) ==
    IF spans[i].parent = 0 THEN FALSE
    ELSE spans[i].parent = a \/ IsAncestor(a, spans[i].parent)

\* C17: within one request the spans are strictly well nested: the open spans
\* form one ancestor chain starting at the root, no two open spans are
\* siblings, a span is open only while its parent is open (it starts while
\* the parent is open and ends before the parent ends), and the parent
\* relation is acyclic with exactly one root.
C17_SpansWellNested ==
    /\ \A i \in 1..Len(spans) : spans[i].parent \in 0..(i - 1)
    /\ Len(spans) >= 1 => { i \in 1..Len(spans) : spans[i].parent = 0 } = {1}
    /\ \A i \in OpenSpans : spans[i].parent # 0 => spans[i].parent \in OpenSpans
    /\ \A i, j \in OpenSpans : i < j => IsAncestor(i, j)
    /\ \A i, j \in OpenSpans : (i # j) => spans[i].parent # spans[j].parent
    /\ \A i \in 1..Len(spans) :
          LET p == spans[i].parent IN
          (p # 0) =>
              /\ spans[i].startedAt >= spans[p].startedAt
              /\ IsSome(spans[p].endedAt) =>
                    /\ IsSome(spans[i].endedAt)
                    /\ Val(spans[i].endedAt) <= Val(spans[p].endedAt)
                    /\ spans[i].startedAt <= Val(spans[p].endedAt)
    /\ OpenSpans = { fiber.stack[k] : k \in 1..Len(fiber.stack) }

C17_Witness ==
    /\ fiber.kind = "complex"
    /\ Len(spans) = 23
    /\ Cardinality(OpenSpans) = 10
    /\ spans[23].name = "sendEmail"
    /\ \E i \in 1..Len(spans) : spans[i].name = "cacheCheck" /\ ~spans[i].open

====
